---- MODULE Spec2Model ----
(***************************************************************************)
(* AQI forecasting: the data loader and the per-city model cache of        *)
(* AQIPredictionEngine (aqi_prediction_engine.py) and the dashboard's      *)
(* "Generate Forecast" handler (app.py).                                   *)
(*                                                                         *)
(* Optional values (Python None / pandas NaN, NaT) are sets of at most one *)
(* element: None == {} and Some(v) == {v}.                                 *)
(* An AQI reading is [whole |-> n, half |-> b], the float n + 0.5 when b   *)
(* and n otherwise; an integer-typed AQI has half = FALSE.                 *)
(* A calendar date is its day number; consecutive days differ by one.      *)
(***************************************************************************)
EXTENDS Integers, Sequences, FiniteSets, TLC

VARIABLES file, built, data, models, call, ui, pc, local

vars == <<file, built, data, models, call, ui, pc, local>>

\* ------------------------------------------------------------------ bounds
MaxFileRows == 3
MaxGarbageRows == 2
MaxRows == 3
MaxAppRows == 2
MaxSeriesRows == 4
MaxDate == 3
MaxAQI == 2
MaxPeriods == 2

\* ------------------------------------------------------- program constants
LowDataRows == 730
SliderMin == 7
SliderMax == 90
SliderStep == 7

Cities == {"Delhi", "Agra"}
Sessions == {"s1", "s2"}

None == {}
Some(v) == {v}
The(o) == CHOOSE v \in o : TRUE

\* ------------------------------------------------------------- data loader
\* df['Date'] = pd.to_datetime(df['Date']) on one cell: a blank cell is NaT,
\* an ISO date is its day; text that is no date makes the call raise.
to_datetime(cell) == IF cell.text = "iso" THEN Some(cell.day) ELSE None

Unparseable(rows) == \E i \in 1..Len(rows) : rows[i].Date.text = "garbage"

\* read_csv keeps the file order and labels the rows 1..N (the index).
read_csv(rows) ==
  [i \in 1..Len(rows) |->
     [idx |-> i, City |-> rows[i].City, Date |-> rows[i].Date, AQI |-> rows[i].AQI]]

parse_dates(df) ==
  [i \in 1..Len(df) |-> [df[i] EXCEPT !.Date = to_datetime(df[i].Date)]]

\* df['AQI'].ffill(): one pass in file order carrying the last AQI seen.
RECURSIVE ffill_from(_, _, _)
ffill_from(df, i, carry) ==
  IF i > Len(df) THEN <<>>
  ELSE LET v == IF df[i].AQI = None THEN carry ELSE df[i].AQI
       IN  <<[df[i] EXCEPT !.AQI = v]>> \o ffill_from(df, i + 1, v)

\* the same fill restarted at every change of city (a per-group fill)
RECURSIVE ffill_grouped_from(_, _, _, _)
ffill_grouped_from(df, i, carry, city) ==
  IF i > Len(df) THEN <<>>
  ELSE LET c == IF df[i].City = city THEN carry ELSE None
           v == IF df[i].AQI = None THEN c ELSE df[i].AQI
       IN  <<[df[i] EXCEPT !.AQI = v]>> \o ffill_grouped_from(df, i + 1, v, df[i].City)

ffill_per_city(df) == ffill_grouped_from(df, 1, None, "")

ffill(df) == ffill_from(df, 1, None)

KeepRow(r) == r.AQI # None /\ r.City # ""

HasAQI(r) == r.AQI # None

\* a dropna whose subset names the AQI column only
dropna_aqi_only(df) == SelectSeq(df, HasAQI)

\* df.dropna(subset=['AQI', 'City'])
dropna(df) == SelectSeq(df, KeepRow)

\* df['AQI'].astype(int): truncation; NaN cannot be cast and raises.
CastFails(df) == \E i \in 1..Len(df) : df[i].AQI = None

astype_int(df) ==
  [i \in 1..Len(df) |->
     [df[i] EXCEPT !.AQI = Some([whole |-> The(df[i].AQI).whole, half |-> FALSE])]]

\* The body of the try block: the exception it raises, or the table.
prepare(f) ==
  IF f.kind = "missing" THEN [exc |-> "FileNotFoundError", df |-> <<>>]
  ELSE IF f.kind = "malformed" THEN [exc |-> "ParserError", df |-> <<>>]
  ELSE IF Unparseable(f.rows) THEN [exc |-> "ValueError", df |-> <<>>]
  ELSE LET cleaned == dropna(ffill(parse_dates(read_csv(f.rows))))
       IN  IF CastFails(cleaned) THEN [exc |-> "ValueError", df |-> <<>>]
           ELSE [exc |-> "none", df |-> astype_int(cleaned)]

\* an except clause for FileNotFoundError only
load_catching_not_found(f) ==
  LET r == prepare(f)
  IN  IF r.exc = "none" THEN [exc |-> "none", value |-> Some(r.df)]
      ELSE IF r.exc = "FileNotFoundError" THEN [exc |-> "none", value |-> None]
      ELSE [exc |-> r.exc, value |-> None]

\* _load_and_prepare_data: both except clauses return None.
load_and_prepare_data(f) ==
  LET r == prepare(f)
  IN  IF r.exc = "none" THEN [exc |-> "none", value |-> Some(r.df)]
      ELSE [exc |-> "none", value |-> None]

\* ------------------------------------------------------------------ engine
\* sorted(...) over city names: the names in lexicographic order.
CityOrder == <<"Agra", "Delhi">>

get_available_cities(d) ==
  IF d # None
  THEN LET present == {The(d)[i].City : i \in 1..Len(The(d))}
       IN  SelectSeq(CityOrder, LAMBDA c : c \in present)
  ELSE <<>>

\* self.data[self.data['City'] == city]
city_data(df, city) == SelectSeq(df, LAMBDA r : r.City = city)

SetMin(S) == CHOOSE x \in S : \A y \in S : x <= y

RECURSIVE sort_values(_)
sort_values(S) ==
  IF S = {} THEN <<>> ELSE <<SetMin(S)>> \o sort_values(S \ {SetMin(S)})

HasNaT(rows) == \E i \in 1..Len(rows) : rows[i].Date = None

\* Prophet.fit keeps the distinct dates of the frame, sorted.
history_dates(rows) == sort_values({The(rows[i].Date) : i \in 1..Len(rows)})

\* Prophet.fit raises on fewer than two rows and on a NaT date.  With two or
\* more rows that all share one date the time scale is zero and the outcome
\* is the optimiser's: either.
FitOutcomes(rows) ==
  IF Len(rows) < 2 \/ HasNaT(rows) THEN {"raise"}
  ELSE IF Len(history_dates(rows)) = 1 THEN {"ok", "raise"}
  ELSE {"ok"}

\* predict, round and astype(int): a model fitted on a zero time scale may
\* predict NaN, which cannot be cast.
PredictOutcomes(model) ==
  IF Len(model.history_dates) = 1 THEN {"ok", "raise"} ELSE {"ok"}

date_range(start, n) == [i \in 1..n |-> start + i - 1]

Min(a, b) == IF a <= b THEN a ELSE b

Range(s) == {s[i] : i \in 1..Len(s)}

\* a future frame that keeps the start of the range
make_future_from_last(model, periods) ==
  LET last_date == model.history_dates[Len(model.history_dates)]
  IN  model.history_dates \o date_range(last_date, periods)

\* model.make_future_dataframe(periods): the history dates, then the days of
\* date_range(last_date, periods + 1) after last_date, at most `periods`.
make_future_dataframe(model, periods) ==
  LET last_date == model.history_dates[Len(model.history_dates)]
      dates == SelectSeq(date_range(last_date, periods + 1), LAMBDA d : d > last_date)
  IN  model.history_dates \o SubSeq(dates, 1, Min(periods, Len(dates)))

\* a store that is forgotten
cache_store_nothing(ms, city, model) == ms

\* an insertion that keeps an entry already present
cache_store_if_absent(ms, city, model) ==
  IF city \in DOMAIN ms THEN ms
  ELSE [c \in DOMAIN ms \cup {city} |-> IF c = city THEN model ELSE ms[c]]

\* self.models[city] = model
cache_store(ms, city, model) ==
  [c \in DOMAIN ms \cup {city} |-> IF c = city THEN model ELSE ms[c]]

\* a lookup that never finds an entry
never_cached(ms, city) == FALSE

\* city in self.models
is_cached(ms, city) == city \in DOMAIN ms

\* a check that is always passed
always_loaded(d) == TRUE

\* self.data is not None
is_loaded(d) == d # None

NoModels == [c \in {} |-> 0]

\* the outcomes fit can have for this call; "ok" when fit is not reached,
\* "raise" when subscripting an absent table raises before it.
FitChoices(ms, d, city) ==
  IF is_cached(ms, city) \/ ~is_loaded(d) THEN {"ok"}
  ELSE IF d = None THEN {"raise"}
  ELSE FitOutcomes(city_data(The(d), city))

\* train_model_for_city, given the outcome of fit and the identity of the
\* Prophet object the call would construct.
train_model_for_city(ms, d, city, fo, id) ==
  IF is_cached(ms, city)
  THEN [models |-> ms, outcome |-> "return", model |-> Some(ms[city]),
        fit_called |-> FALSE, warned |-> FALSE]
  ELSE IF ~is_loaded(d)
  THEN [models |-> ms, outcome |-> "return", model |-> None,
        fit_called |-> FALSE, warned |-> FALSE]
  ELSE IF d = None
  THEN [models |-> ms, outcome |-> "raise", model |-> None,
        fit_called |-> FALSE, warned |-> FALSE]
  ELSE LET rows == city_data(The(d), city)
           warned == Len(rows) < LowDataRows
       IN  IF fo = "raise"
           THEN [models |-> ms, outcome |-> "raise", model |-> None,
                 fit_called |-> TRUE, warned |-> warned]
           ELSE LET model == [id |-> id, history_dates |-> history_dates(rows)]
                IN  [models |-> cache_store(ms, city, model), outcome |-> "return",
                     model |-> Some(model), fit_called |-> TRUE, warned |-> warned]

PredictChoices(t) ==
  IF t.outcome = "return" /\ t.model # None THEN PredictOutcomes(The(t.model)) ELSE {"ok"}

\* get_forecast, given the result t of its train_model_for_city call and the
\* outcome of predict; the forecast is its ds column.
get_forecast(t, city, periods, po) ==
  LET base == [op |-> "get_forecast", city |-> city, periods |-> periods,
               model |-> t.model, fit_called |-> t.fit_called, warned |-> t.warned,
               outcome |-> "return", forecast |-> None]
  IN  IF t.outcome = "raise" THEN [base EXCEPT !.outcome = "raise"]
      ELSE IF t.model = None THEN base
      ELSE IF po = "raise" THEN [base EXCEPT !.outcome = "raise"]
      ELSE [base EXCEPT !.forecast = Some(make_future_dataframe(The(t.model), periods))]

\* ------------------------------------------------------------ input files
IsoDate(d) == [text |-> "iso", day |-> d]
BlankDate == [text |-> "blank", day |-> 0]
GarbageDate == [text |-> "garbage", day |-> 0]

Reading(w, h) == [whole |-> w, half |-> h]

Csv(rows) == [kind |-> "csv", rows |-> rows]
NoFile == [kind |-> "missing", rows |-> <<>>]
BadFile == [kind |-> "malformed", rows |-> <<>>]

\* files for the loader: blank cities, blank and fractional AQI ...
LoaderRows ==
  [City : Cities \cup {""}, Date : {IsoDate(1)},
   AQI : {None} \cup {Some(Reading(w, h)) : w \in 1..MaxAQI, h \in BOOLEAN}]

\* ... and the same files with one date cell that is no date
WithGarbage(rows, i) == [rows EXCEPT ![i].Date = GarbageDate]

IsLoaderFile(f) ==
  \/ f \in {NoFile, BadFile}
  \/ \E k \in 0..MaxFileRows : \E r \in [1..k -> LoaderRows] : f = Csv(r)
  \/ \E k \in 1..MaxGarbageRows : \E r \in [1..k -> LoaderRows] :
       \E i \in 1..k : f = Csv(WithGarbage(r, i))

\* files for the engine: complete readings, any dates, blank dates
EngineRows ==
  [City : Cities, Date : {IsoDate(d) : d \in 1..MaxDate} \cup {BlankDate},
   AQI : {Some(Reading(1, FALSE))}]

IsEngineFile(f, n) ==
  \/ f \in {NoFile, BadFile}
  \/ \E k \in 0..n : \E r \in [1..k -> EngineRows] : f = Csv(r)

\* files for the sessions: one reading a day, each for some city
IsSeriesFile(f) ==
  \/ f = NoFile
  \/ \E k \in 0..MaxSeriesRows : \E c \in [1..k -> Cities] :
       f = Csv([i \in 1..k |->
                  [City |-> c[i], Date |-> IsoDate(i), AQI |-> Some(Reading(1, FALSE))]])

\* ------------------------------------------------------------------- state
NoCall ==
  [op |-> "none", city |-> "", periods |-> 0, model |-> None, fit_called |-> FALSE,
   warned |-> FALSE, outcome |-> "return", forecast |-> None]

TrainCall(t, city) ==
  [op |-> "train_model_for_city", city |-> city, periods |-> 0, model |-> t.model,
   fit_called |-> t.fit_called, warned |-> t.warned, outcome |-> t.outcome,
   forecast |-> None]

NoUi ==
  [status |-> "idle", city |-> "", days |-> 0, latest |-> None, tomorrow |-> None,
   table |-> <<>>]

NoLocal == [city |-> "", model |-> None, fit_called |-> FALSE, outcome |-> "none"]

\* Object identity: a new Prophet object is distinct from every object that
\* is still referenced (by the cache, by the last result, by a running call).
LiveIds ==
  {models[c].id : c \in DOMAIN models}
    \cup {m.id : m \in call.model}
    \cup UNION {{m.id : m \in local[s].model} : s \in Sessions}

FreshId == SetMin((1..(Cardinality(LiveIds) + 1)) \ LiveIds)

Unbuilt ==
  /\ built = "no"
  /\ data = None
  /\ models = NoModels
  /\ call = NoCall
  /\ ui = NoUi
  /\ pc = [s \in Sessions |-> "idle"]
  /\ local = [s \in Sessions |-> NoLocal]

Init == IsEngineFile(file, MaxRows) /\ Unbuilt

InitLoad == IsLoaderFile(file) /\ Unbuilt

InitApp == IsEngineFile(file, MaxAppRows) /\ Unbuilt

InitSeries == IsSeriesFile(file) /\ Unbuilt

Ready == built \in {"engine", "app"}

\* ----------------------------------------------------------------- actions
\* AQIPredictionEngine(data_filepath)
Construct ==
  /\ built = "no"
  /\ LET r == load_and_prepare_data(file)
     IN  IF r.exc # "none"
         THEN built' = "raised" /\ UNCHANGED <<data, models>>
         ELSE built' = "engine" /\ data' = r.value /\ models' = NoModels
  /\ UNCHANGED <<file, call, ui, pc, local>>

\* load_engine(): construct, pre-train Delhi; any exception leaves no engine.
load_engine ==
  /\ built = "no"
  /\ LET r == load_and_prepare_data(file)
     IN  IF r.exc # "none"
         THEN built' = "failed" /\ UNCHANGED <<data, models, call>>
         ELSE IF is_loaded(r.value) /\ "Delhi" \in Range(get_available_cities(r.value))
         THEN \E fo \in FitChoices(NoModels, r.value, "Delhi") :
                LET t == train_model_for_city(NoModels, r.value, "Delhi", fo, FreshId)
                IN  /\ call' = TrainCall(t, "Delhi")
                    /\ IF t.outcome = "raise"
                       THEN built' = "failed" /\ UNCHANGED <<data, models>>
                       ELSE built' = "app" /\ data' = r.value /\ models' = t.models
         ELSE built' = "app" /\ data' = r.value /\ models' = NoModels /\ UNCHANGED call
  /\ UNCHANGED <<file, ui, pc, local>>

\* engine.train_model_for_city(city)
Train(city) ==
  /\ Ready
  /\ \E fo \in FitChoices(models, data, city) :
       LET t == train_model_for_city(models, data, city, fo, FreshId)
       IN  models' = t.models /\ call' = TrainCall(t, city)
  /\ UNCHANGED <<file, built, data, ui, pc, local>>

\* engine.get_forecast(city, periods)
GetForecast(city, periods) ==
  /\ Ready
  /\ \E fo \in FitChoices(models, data, city) :
       LET t == train_model_for_city(models, data, city, fo, FreshId)
       IN  \E po \in PredictChoices(t) :
             models' = t.models /\ call' = get_forecast(t, city, periods, po)
  /\ UNCHANGED <<file, built, data, ui, pc, local>>

SliderValues == {d \in SliderMin..SliderMax : (d - SliderMin) % SliderStep = 0}

\* s.iloc[-n]
iloc_from_end(s, n) == s[Len(s) - n + 1]

\* the last n rows but one place early
tail_early(s, n) == SubSeq(s, IF Len(s) > n THEN Len(s) - n ELSE 1, Len(s))

\* df.tail(n)
tail(s, n) == SubSeq(s, IF Len(s) > n THEN Len(s) - n + 1 ELSE 1, Len(s))

\* what the handler shows for the result c of get_forecast(city, days)
render(c, d, city, days) ==
  LET base == [NoUi EXCEPT !.city = city, !.days = days]
  IN  IF c.outcome = "raise" THEN [base EXCEPT !.status = "error"]
      ELSE IF c.forecast = None THEN [base EXCEPT !.status = "no_forecast"]
      ELSE LET forecast == The(c.forecast)
               rows == city_data(The(d), city)
           IN  IF rows = <<>> \/ days > Len(forecast)
               THEN [base EXCEPT !.status = "error"]
               ELSE [base EXCEPT !.status = "success",
                                 !.latest = rows[Len(rows)].AQI,
                                 !.tomorrow = Some(iloc_from_end(forecast, days)),
                                 !.table = tail(forecast, days)]

\* the "Generate Forecast" button with the sidebar's city and horizon
GenerateForecast(city, days) ==
  /\ built = "app"
  /\ is_loaded(data)
  /\ city \in Range(get_available_cities(data))
  /\ \E fo \in FitChoices(models, data, city) :
       LET t == train_model_for_city(models, data, city, fo, FreshId)
       IN  \E po \in PredictChoices(t) :
             LET c == get_forecast(t, city, days, po)
             IN  models' = t.models /\ call' = c /\ ui' = render(c, data, city, days)
  /\ UNCHANGED <<file, built, data, pc, local>>

\* ------------------------------------------------- two dashboard sessions
\* Each session runs train_model_for_city on the shared engine; the steps
\* are the points at which the other session's thread can run in between.
\* get_forecast enters through the same call and touches the cache nowhere
\* else.

\* a call to train_model_for_city(city) starts
Begin(s, city) ==
  /\ built = "app"
  /\ pc[s] = "idle"
  /\ pc' = [pc EXCEPT ![s] = "check"]
  /\ local' = [local EXCEPT ![s] = [NoLocal EXCEPT !.city = city, !.outcome = "running"]]
  /\ UNCHANGED <<file, built, data, models, call, ui>>

\* the cache check and the data check
Check(s) ==
  /\ pc[s] = "check"
  /\ IF is_cached(models, local[s].city)
     THEN /\ pc' = [pc EXCEPT ![s] = "done"]
          /\ local' = [local EXCEPT ![s].model = Some(models[local[s].city]),
                                    ![s].outcome = "return"]
     ELSE IF ~is_loaded(data)
     THEN /\ pc' = [pc EXCEPT ![s] = "done"]
          /\ local' = [local EXCEPT ![s].outcome = "return"]
     ELSE /\ pc' = [pc EXCEPT ![s] = "fit"]
          /\ UNCHANGED local
  /\ UNCHANGED <<file, built, data, models, call, ui>>

\* filtering the table, constructing the Prophet object and fitting it
Fit(s) ==
  /\ pc[s] = "fit"
  /\ \E fo \in FitOutcomes(city_data(The(data), local[s].city)) :
       IF fo = "raise"
       THEN /\ pc' = [pc EXCEPT ![s] = "done"]
            /\ local' = [local EXCEPT ![s].fit_called = TRUE, ![s].outcome = "raise"]
       ELSE /\ pc' = [pc EXCEPT ![s] = "store"]
            /\ local' = [local EXCEPT
                  ![s].fit_called = TRUE,
                  ![s].model = Some([id |-> FreshId,
                                     history_dates |->
                                       history_dates(city_data(The(data), local[s].city))])]
  /\ UNCHANGED <<file, built, data, models, call, ui>>

\* the store into the cache and the return
Store(s) ==
  /\ pc[s] = "store"
  /\ models' = cache_store(models, local[s].city, The(local[s].model))
  /\ pc' = [pc EXCEPT ![s] = "done"]
  /\ local' = [local EXCEPT ![s].outcome = "return"]
  /\ UNCHANGED <<file, built, data, call, ui>>

\* the caller drops the result
Finish(s) ==
  /\ pc[s] = "done"
  /\ pc' = [pc EXCEPT ![s] = "idle"]
  /\ local' = [local EXCEPT ![s] = NoLocal]
  /\ UNCHANGED <<file, built, data, models, call, ui>>

\* ---------------------------------------------------------- specifications
Next ==
  \/ Construct
  \/ \E city \in Cities : Train(city)
  \/ \E city \in Cities, periods \in 0..MaxPeriods : GetForecast(city, periods)

Spec == Init /\ [][Next]_vars

NextLoad == Construct

SpecLoad == InitLoad /\ [][NextLoad]_vars

NextApp ==
  \/ load_engine
  \/ \E city \in Cities, days \in SliderValues : GenerateForecast(city, days)

SpecApp == InitApp /\ [][NextApp]_vars

NextSessions ==
  \/ load_engine
  \/ \E s \in Sessions, city \in Cities : Begin(s, city)
  \/ \E s \in Sessions : Check(s)
  \/ \E s \in Sessions : Fit(s)
  \/ \E s \in Sessions : Store(s)
  \/ \E s \in Sessions : Finish(s)

SpecSessions == InitSeries /\ [][NextSessions]_vars

\* ------------------------------------------------------------- properties
SetMax(S) == CHOOSE x \in S : \A y \in S : x >= y

\* the rows of the loaded table for a city, and their dates
RowsOf(city) == city_data(The(data), city)

DatesOf(city) == {The(RowsOf(city)[i].Date) : i \in 1..Len(RowsOf(city))}

Called == call.op # "none"

\* a city whose rows fit can always take: two or more rows, every date
\* present, two or more distinct dates
Fittable(city) ==
  /\ Len(RowsOf(city)) >= 2
  /\ ~HasNaT(RowsOf(city))
  /\ Cardinality(DatesOf(city)) >= 2

\* C1: once a city has a cached model, no step replaces or removes it, and a
\* later train_model_for_city / get_forecast for that city does not fit and
\* gets that same model instance.
C1_CachedModelReused ==
  [][\A c \in DOMAIN models :
       /\ c \in DOMAIN models'
       /\ models'[c] = models[c]
       /\ (call' # call /\ call'.city = c) =>
             (~call'.fit_called /\ call'.model = Some(models[c]))]_vars

C1_Witness ==
  /\ call.op = "get_forecast"
  /\ ~call.fit_called
  /\ call.city \in DOMAIN models
  /\ call.model = Some(models[call.city])

\* C2: get_forecast(city, P) returns a forecast for every city that can be
\* fitted; a forecast it returns has as many rows as the city has distinct
\* historical dates plus P, and its last P rows are the P consecutive days
\* after the latest historical date.
C2_ForecastLength ==
  /\ (call.op = "get_forecast" /\ data # None /\ Fittable(call.city)) =>
       call.forecast # None
  /\ (call.op = "get_forecast" /\ call.forecast # None) =>
       LET f == The(call.forecast)
           H == Cardinality(DatesOf(call.city))
           last == SetMax(DatesOf(call.city))
       IN  /\ Len(f) = H + call.periods
           /\ \A i \in 1..call.periods : f[H + i] = last + i

C2_Witness ==
  /\ call.op = "get_forecast"
  /\ call.forecast # None
  /\ call.periods >= 2
  /\ Len(The(call.forecast)) = Cardinality(DatesOf(call.city)) + call.periods

\* a file the loader cannot read: no such path, or content that does not parse
FailsToLoad(f) == f.kind \in {"missing", "malformed"} \/ Unparseable(f.rows)

\* C3: constructing the engine on a missing or unparseable file does not
\* raise; the engine has no table, an empty cache and no available cities.
C3_LoadFailureAbsorbed ==
  (built # "no" /\ FailsToLoad(file)) =>
    /\ built = "engine"
    /\ data = None
    /\ models = NoModels
    /\ get_available_cities(data) = <<>>

C3_Witness ==
  /\ built = "engine"
  /\ file.kind = "csv"
  /\ Unparseable(file.rows)
  /\ data = None

\* C4: get_forecast for a city with fewer than two rows returns None
\* instead of raising.
C4_InsufficientDataReturnsNone ==
  (call.op = "get_forecast" /\ data # None /\ Len(RowsOf(call.city)) < 2) =>
    (call.outcome = "return" /\ call.forecast = None)

\* C5: with no table loaded, every train_model_for_city and get_forecast
\* returns None without calling fit, and the cache stays empty.
C5_NoDataNoModel ==
  (Ready /\ data = None) =>
    /\ models = NoModels
    /\ Called =>
          /\ call.outcome = "return"
          /\ call.model = None
          /\ call.forecast = None
          /\ ~call.fit_called

C5_Witness ==
  /\ Ready
  /\ data = None
  /\ call.op = "get_forecast"
  /\ call.outcome = "return"

\* C6: a loaded table has no row without AQI, no row without city, and
\* every AQI is an integer.
C6_NoMissingAQI ==
  data # None =>
    \A i \in 1..Len(The(data)) :
      /\ The(data)[i].AQI # None
      /\ ~The(The(data)[i].AQI).half
      /\ The(data)[i].City # ""

C6_Witness ==
  /\ data # None
  /\ Len(file.rows) >= 2
  /\ file.rows[1].AQI = None
  /\ file.rows[1].City # ""
  /\ Len(The(data)) = Len(file.rows) - 1

\* the result the low-data sentence promises for the last call
StillServed ==
  /\ call.outcome = "return"
  /\ call.fit_called => call.warned
  /\ call.city \in DOMAIN models
  /\ call.model = Some(models[call.city])
  /\ call.op = "get_forecast" => call.forecast # None

\* C7 as stated: for every city with fewer than 730 rows, however few,
\* train_model_for_city caches a model and get_forecast returns a result.
C7_AnySparseCityServed ==
  (Called /\ data # None /\ Len(RowsOf(call.city)) < LowDataRows) => StillServed

\* C7 amended: the same for every city with fewer than 730 rows that has at
\* least two rows, no missing date and at least two distinct dates.
C7_SparseCityServed ==
  (/\ Called
   /\ data # None
   /\ Len(RowsOf(call.city)) < LowDataRows
   /\ Fittable(call.city)) => StillServed

C7_Witness ==
  /\ call.op = "get_forecast"
  /\ call.fit_called
  /\ call.warned
  /\ Len(RowsOf(call.city)) = 2
  /\ call.forecast # None

\* C8: when the dashboard shows a forecast, the "tomorrow" metric is the row
\* for the day after the city's latest historical date, and the table has
\* forecast_days rows, all dated after that date.
C8_TomorrowIsFirstFutureDay ==
  ui.status = "success" =>
    LET last == SetMax(DatesOf(ui.city))
    IN  /\ ui.tomorrow = Some(last + 1)
        /\ Len(ui.table) = ui.days
        /\ \A i \in 1..Len(ui.table) : ui.table[i] > last

C8_Witness ==
  /\ ui.status = "success"
  /\ ui.days > SliderMin
  /\ Cardinality(DatesOf(ui.city)) >= 2
  /\ ui.tomorrow = Some(SetMax(DatesOf(ui.city)) + 1)

\* the rows at or before i in the file that carry an AQI
Sources(i) == {j \in 1..i : file.rows[j].AQI # None}

\* C9: every file row with a city and with some AQI at or before it in the
\* file is kept, and each kept row carries the truncated AQI of the nearest
\* row at or before it that has one, whatever that row's city (blank too).
C9_FillCrossesCities ==
  data # None =>
    /\ \A i \in 1..Len(file.rows) :
         (file.rows[i].City # "" /\ Sources(i) # {}) =>
           \E k \in 1..Len(The(data)) : The(data)[k].idx = i
    /\ \A k \in 1..Len(The(data)) :
         LET i == The(data)[k].idx
         IN  /\ Sources(i) # {}
             /\ The(data)[k].AQI =
                  Some([whole |-> The(file.rows[SetMax(Sources(i))].AQI).whole,
                        half |-> FALSE])

C9_Witness ==
  /\ data # None
  /\ \E i \in 1..(Len(file.rows) - 1) :
       /\ file.rows[i].City = "Delhi"
       /\ file.rows[i].AQI # None
       /\ file.rows[i + 1].City = "Agra"
       /\ file.rows[i + 1].AQI = None
       /\ \E k \in 1..Len(The(data)) :
            /\ The(data)[k].idx = i + 1
            /\ The(data)[k].City = "Agra"
            /\ The(The(data)[k].AQI).whole = The(file.rows[i].AQI).whole

\* a session holds a model that its own call fitted
HoldsFitted(s) == pc[s] \in {"store", "done"} /\ local[s].fit_called /\ local[s].model # None

\* C10: nothing orders the cache check of one session against the store of
\* another: a session that found the city uncached stores its own model
\* over whatever the cache then holds, and two sessions that both fitted the
\* same city hold two different model instances.
C10_UnlockedCache ==
  /\ [](\A s, t \in Sessions :
          (s # t /\ HoldsFitted(s) /\ HoldsFitted(t)) => local[s].model # local[t].model)
  /\ [][\A s \in Sessions :
          (pc[s] = "store" /\ pc'[s] = "done") =>
            (/\ local[s].city \in DOMAIN models'
             /\ models'[local[s].city] = The(local[s].model))]_vars

C10_Witness ==
  /\ pc["s1"] = "done"
  /\ pc["s2"] = "done"
  /\ local["s1"].city = local["s2"].city
  /\ local["s1"].fit_called
  /\ local["s2"].fit_called
  /\ local["s1"].outcome = "return"
  /\ local["s2"].outcome = "return"
  /\ local["s1"].model # local["s2"].model
  /\ models[local["s1"].city] = The(local["s2"].model)

====
